---- MODULE Spec2Model ----
(***************************************************************************)
(* Model of src/main.py: the flight search loop of main(), the result      *)
(* validator of the search agent, the extract_flights tool, the seat       *)
(* selection loop find_seat() and the purchase action buy_ticket().        *)
(*                                                                         *)
(* The language model and the user are the environment: every model reply  *)
(* and every user answer is a nondeterministic choice from a small set.    *)
(***************************************************************************)
EXTENDS Integers, Sequences, FiniteSets, TLC

VARIABLES
    pc,               \* position of the program
    deps,             \* Deps passed to the search agent
    usage,            \* Usage(): the shared counter, usage.requests
    counter,          \* main: number of finished search_agent.run calls
    message_history,  \* main: history handed to the next search_agent.run
    messages,         \* the messages of the current / last search_agent.run
    retry,            \* search agent: result-validation retries of this run
    result_data,      \* result.data of the last search_agent.run
    flight,           \* main: flight = result.data
    answer,           \* main: the user's answer to the offered flight
    seat_history,     \* find_seat: message_history
    seat_messages,    \* the messages of the last seat_preference_agent.run
    seat_failed,      \* find_seat: Failed results so far
    seat,             \* seat returned by find_seat
    seat_raw,         \* the fields the model gave for that seat
    seat_pending,     \* messages of the seat run in progress
    seat_rejected,    \* seat results that failed construction, so far
    purchased,        \* calls of buy_ticket, in order
    tool_calls,       \* calls of extract_flights, in this run of the program
    exc,              \* the exception that ended the program, if any
    ended,            \* how main left its loop: "bought" / "not_found"
    vresult,          \* the result last given to validate_result
    voutcome          \* what validate_result did with it

vars == <<pc, deps, answer, usage, counter, message_history, messages, retry,
          result_data, flight, seat_history, seat_messages, seat_failed,
          seat, seat_raw, seat_pending, seat_rejected, purchased,
          tool_calls, exc, ended, vresult, voutcome>>

----------------------------------------------------------------------------
(* Bounds of the environment *)

\* how many times the user answers 'search' (or '') to an offered flight
MaxSearchAgain == 2
\* how many times the model calls the extract_flights tool
MaxToolCalls == 1
\* how many times the seat model gives fields that are no SeatPreference
MaxSeatRejected == 1

----------------------------------------------------------------------------
(* Program constants *)

\* Agent(..., retries=4)
retries == 4
\* UsageLimits(request_limit=15)
request_limit == 15

----------------------------------------------------------------------------
(* Values *)

None == [type |-> "None"]
NonFlightFound == [type |-> "NonFlightFound"]
Failed == [type |-> "Failed"]

FlightDetails(fn, p, o, d, dt) ==
    [type |-> "FlightDetails", flight_number |-> fn, price |-> p,
     origin |-> o, destination |-> d, date |-> dt]

Deps(o, d, dt) ==
    [web_page_text |-> "flights_web_page",
     req_origin |-> o, req_destination |-> d, req_date |-> dt]

SeatPreference(r, s) == [type |-> "SeatPreference", row |-> r, seat |-> s]

isinstance(x, t) == x.type = t

\* seat: Literal['A', 'B', 'C', 'D', 'E', 'F']
SeatLetters == {"A", "B", "C", "D", "E", "F"}

\* SeatPreference construction that clamps the row into 1..30
SeatPreference_init_clamps(r, s) ==
    IF s \in SeatLetters
    THEN [ok |-> TRUE,
          value |-> SeatPreference(IF r < 1 THEN 1 ELSE IF r > 30 THEN 30
                                   ELSE r, s)]
    ELSE [ok |-> FALSE, value |-> None]

\* SeatPreference(row=r, seat=s) with its field constraints,
\* row: int = Field(ge=1, le=30): the value, or a validation error
SeatPreference_init(r, s) ==
    IF r >= 1 /\ r <= 30 /\ s \in SeatLetters
    THEN [ok |-> TRUE, value |-> SeatPreference(r, s)]
    ELSE [ok |-> FALSE, value |-> None]

\* the eight flights of flights_web_page
flights_web_page ==
    { FlightDetails("SFO-AK123", 350, "SFO", "ANC", "2025-01-10"),
      FlightDetails("SFO-AK456", 370, "SFO", "FAI", "2025-01-10"),
      FlightDetails("SFO-AK789", 400, "SFO", "JNU", "2025-01-20"),
      FlightDetails("NYC-LA101", 250, "SFO", "ANC", "2025-01-10"),
      FlightDetails("CHI-MIA202", 200, "ORD", "YYZ", "2025-01-12"),
      FlightDetails("BOS-YYZ303", 120, "BOS", "YYZ", "2025-01-10"),
      FlightDetails("BOS-YYZ404", 250, "BOS", "YYZ", "2025-01-10"),
      FlightDetails("ATL-HOU505", 180, "ATL", "IAH", "2025-01-10") }

\* main: deps = Deps(web_page_text=..., req_date=2025-01-10, 'BOS', 'YYZ')
main_deps == Deps("BOS", "YYZ", "2025-01-10")

----------------------------------------------------------------------------
(* validate_result *)

\* getattr on a dataclass instance: only the declared fields exist
hasattr(obj, name) == name \in DOMAIN obj

Return(value, n) ==
    [kind |-> "return", value |-> value, exc |-> "", message |-> <<>>,
     checks |-> n]
Raise(e, msg, n) ==
    [kind |-> "raise", value |-> None, exc |-> e, message |-> msg,
     checks |-> n]

\* the three f-strings of validate_result, as their pieces
OriginMessage(expected, actual) ==
    <<"Flight should have origin ", expected, ", not ", actual>>
DestinationMessage(expected, actual) ==
    <<"Flight should have destination ", expected, " not ", actual>>
DateMessage(expected, actual) ==
    <<"Flight should have date ", expected, " not ", actual>>

\* "\n".join(errors)
RECURSIVE join(_)
join(errors) ==
    IF errors = <<>> THEN <<>>
    ELSE IF Len(errors) = 1 THEN Head(errors)
    ELSE Head(errors) \o <<"\n">> \o join(Tail(errors))

\* validate_result with the destination comparison left out
validate_result_skips_destination(d, result) ==
    IF isinstance(result, "NonFlightFound") THEN Return(result, 0)
    ELSE
      LET e1 == IF result.origin # d.req_origin
                THEN <<OriginMessage(d.req_origin, result.origin)>>
                ELSE <<>>
      IN IF result.date # d.req_date /\ ~hasattr(d, "date")
         THEN Raise("AttributeError", <<>>, 2)
         ELSE
           LET errors == IF result.date # d.req_date
                         THEN e1 \o <<DateMessage(d["date"], result.date)>>
                         ELSE e1
           IN IF errors # <<>>
              THEN Raise("ModelRetry", join(errors), 2)
              ELSE Return(result, 2)

\* validate_result with the isinstance test left out: the comparisons read
\* result.origin of a NonFlightFound, which has no such field
validate_result_no_isinstance(d, result) ==
    IF ~hasattr(result, "origin") THEN Raise("AttributeError", <<>>, 1)
    ELSE
      LET e1 == IF result.origin # d.req_origin
                THEN <<OriginMessage(d.req_origin, result.origin)>>
                ELSE <<>>
          e2 == IF result.destination # d.req_destination
                THEN e1 \o <<DestinationMessage(d.req_destination,
                                                result.destination)>>
                ELSE e1
      IN IF result.date # d.req_date /\ ~hasattr(d, "date")
         THEN Raise("AttributeError", <<>>, 3)
         ELSE
           LET errors == IF result.date # d.req_date
                         THEN e2 \o <<DateMessage(d["date"], result.date)>>
                         ELSE e2
           IN IF errors # <<>>
              THEN Raise("ModelRetry", join(errors), 3)
              ELSE Return(result, 3)

\* validate_result that also wants the lowest price
validate_result_compares_price(d, result) ==
    IF isinstance(result, "NonFlightFound") THEN Return(result, 0)
    ELSE
      LET e1 == IF result.origin # d.req_origin
                THEN <<OriginMessage(d.req_origin, result.origin)>>
                ELSE <<>>
          e2 == IF result.destination # d.req_destination
                THEN e1 \o <<DestinationMessage(d.req_destination,
                                                result.destination)>>
                ELSE e1
          e3 == IF result.price > 120
                THEN e2 \o << <<"Flight should be the cheapest">> >>
                ELSE e2
      IN IF result.date # d.req_date /\ ~hasattr(d, "date")
         THEN Raise("AttributeError", <<>>, 4)
         ELSE
           LET errors == IF result.date # d.req_date
                         THEN e3 \o <<DateMessage(d["date"], result.date)>>
                         ELSE e3
           IN IF errors # <<>>
              THEN Raise("ModelRetry", join(errors), 4)
              ELSE Return(result, 4)

validate_result(d, result) ==
    IF isinstance(result, "NonFlightFound") THEN Return(result, 0)
    ELSE
      LET e1 == IF result.origin # d.req_origin
                THEN <<OriginMessage(d.req_origin, result.origin)>>
                ELSE <<>>
          e2 == IF result.destination # d.req_destination
                THEN e1 \o <<DestinationMessage(d.req_destination,
                                                result.destination)>>
                ELSE e1
      IN IF result.date # d.req_date /\ ~hasattr(d, "date")
         THEN \* ctx.deps.date: Deps has no field 'date'
              Raise("AttributeError", <<>>, 3)
         ELSE
           LET errors == IF result.date # d.req_date
                         THEN e2 \o <<DateMessage(d["date"], result.date)>>
                         ELSE e2
           IN IF errors # <<>>
              THEN Raise("ModelRetry", join(errors), 3)
              ELSE Return(result, 3)

NoOutcome ==
    [kind |-> "none", value |-> None, exc |-> "", message |-> <<>>,
     checks |-> 0]

----------------------------------------------------------------------------
(* The validator on its own: any criteria, any result *)

Codes == {"BOS", "YYZ", "ATL"}
Dates == {"2025-01-10", "2025-01-12"}
AnyDeps == { Deps(o, d, dt) : o \in Codes, d \in Codes, dt \in Dates }
AnyFlight ==
    { FlightDetails(fn, p, o, d, dt) :
        fn \in {"BOS-YYZ303", "BOS-YYZ404"}, p \in {120, 250},
        o \in Codes, d \in Codes, dt \in Dates }
AnyResult == AnyFlight \cup {NonFlightFound}

InitRest ==
    /\ usage = 0
    /\ counter = 0
    /\ message_history = None
    /\ messages = <<>>
    /\ retry = 0
    /\ result_data = None
    /\ flight = None
    /\ answer = ""
    /\ seat_history = None
    /\ seat_messages = <<>>
    /\ seat_failed = 0
    /\ seat = None
    /\ seat_raw = None
    /\ seat_pending = <<>>
    /\ seat_rejected = 0
    /\ purchased = <<>>
    /\ tool_calls = 0
    /\ exc = ""
    /\ ended = ""
    /\ voutcome = NoOutcome

InitValidate ==
    /\ pc = "validate"
    /\ deps \in AnyDeps
    /\ vresult \in AnyResult
    /\ InitRest

Validate ==
    /\ pc = "validate"
    /\ voutcome' = validate_result(deps, vresult)
    /\ pc' = "validated"
    /\ UNCHANGED <<seat_raw, seat_pending, seat_rejected, answer, deps, usage, counter, message_history, messages, retry,
                   result_data, flight, seat_history, seat_messages,
                   seat_failed, seat, purchased, tool_calls, exc, ended,
                   vresult>>

NextValidate == Validate

SpecValidate == InitValidate /\ [][NextValidate]_vars

----------------------------------------------------------------------------
(* Message histories *)

\* one message of a conversation: the agent it belongs to and what it carries
Message(agent, part) == [agent |-> agent, part |-> part]

\* a list[ModelMessage]
MessageList(items) == [type |-> "list", items |-> items]

\* what Agent.run starts from: "if message_history: messages.extend(...)"
HistoryItems(h) ==
    IF isinstance(h, "list") THEN h.items
    ELSE IF isinstance(h, "bytes") THEN h.json
    ELSE <<>>

\* result.all_messages(result_tool_return_content=content): the messages of
\* the run, the content of the final tool return replaced by content
all_messages(msgs, content) ==
    MessageList([msgs EXCEPT ![Len(msgs)].part = content])

\* result.all_messages_json(): the messages of the run encoded as JSON bytes
all_messages_json(msgs) == [type |-> "bytes", json |-> msgs]

----------------------------------------------------------------------------
(* The program *)

\* records the search model may make up: each differs from the request of
\* main in one field
MadeUpFlights ==
    { FlightDetails("ATL-YYZ606", 90, "ATL", "YYZ", "2025-01-10"),
      FlightDetails("BOS-ATL707", 95, "BOS", "ATL", "2025-01-10"),
      FlightDetails("BOS-YYZ303", 120, "BOS", "YYZ", "2025-01-12") }

\* what the search model may return as its final result
SearchResults == flights_web_page \cup MadeUpFlights \cup {NonFlightFound}

\* the fields the seat model may give for a SeatPreference
SeatOutputs ==
    { [row |-> 14, seat |-> "A"], [row |-> 1, seat |-> "F"],
      [row |-> 30, seat |-> "C"], [row |-> 0, seat |-> "A"],
      [row |-> 31, seat |-> "F"], [row |-> 14, seat |-> "G"] }

Init ==
    /\ pc = "main_loop"
    /\ deps = main_deps
    /\ vresult = None
    /\ InitRest

\* main: result = await search_agent.run(..., message_history=message_history)
\* The run starts from the history plus the user prompt.
\* The run is given usage=usage and no usage_limits: request_limit is not
\* consulted by the requests of the search agent or of extract_flights.
SearchRun ==
    /\ pc = "main_loop"
    /\ messages' = HistoryItems(message_history)
                     \o <<Message("search", "user-prompt")>>
    /\ retry' = 0
    /\ pc' = "search_agent"
    /\ UNCHANGED <<seat_raw, seat_pending, seat_rejected, answer, deps, usage, counter, message_history, result_data,
                   flight, seat_history, seat_messages, seat_failed, seat,
                   purchased, tool_calls, exc, ended, vresult, voutcome>>

\* one request to the search model, answered by a call of extract_flights
SearchCallsTool ==
    /\ pc = "search_agent"
    /\ tool_calls < MaxToolCalls
    /\ usage' = usage + 1
    /\ messages' = Append(messages, Message("search", "tool-call"))
    /\ pc' = "extract_flights"
    /\ UNCHANGED <<seat_raw, seat_pending, seat_rejected, answer, deps, counter, message_history, retry, result_data,
                   flight, seat_history, seat_messages, seat_failed, seat,
                   purchased, tool_calls, exc, ended, vresult, voutcome>>

\* extract_flights whose run counts in a Usage of its own
extract_flights_own_usage ==
    /\ pc = "extract_flights"
    /\ tool_calls' = tool_calls + 1
    /\ messages' = Append(messages, Message("search", "tool-return"))
    /\ pc' = "search_agent"
    /\ UNCHANGED <<seat_raw, seat_pending, seat_rejected, answer, deps,
                   usage, counter, message_history, retry, result_data,
                   flight, seat_history, seat_messages, seat_failed, seat,
                   purchased, exc, ended, vresult, voutcome>>

\* extract_flights: extraction_agent.run(web_page_text, usage=ctx.usage)
extract_flights ==
    /\ pc = "extract_flights"
    /\ usage' = usage + 1
    /\ tool_calls' = tool_calls + 1
    /\ messages' = Append(messages, Message("search", "tool-return"))
    /\ pc' = "search_agent"
    /\ UNCHANGED <<seat_raw, seat_pending, seat_rejected, answer, deps, counter, message_history, retry, result_data,
                   flight, seat_history, seat_messages, seat_failed, seat,
                   purchased, exc, ended, vresult, voutcome>>

\* one request to the search model, answered by a final result that
\* validate_result returns: the run ends with that result
SearchReturns ==
    /\ pc = "search_agent"
    /\ \E r \in SearchResults :
         LET outcome == validate_result(deps, r) IN
         /\ outcome.kind = "return"
         /\ result_data' = outcome.value
    /\ usage' = usage + 1
    /\ messages' = messages \o <<Message("search", "result"),
                                 Message("search", "final-result")>>
    /\ pc' = "main_after_run"
    /\ UNCHANGED <<seat_raw, seat_pending, seat_rejected, answer, deps, counter, message_history, retry, flight,
                   seat_history, seat_messages, seat_failed, seat, purchased,
                   tool_calls, exc, ended, vresult, voutcome>>

\* ... by a final result for which validate_result raises ModelRetry, with
\* retries left: the retry prompt goes to the messages and the model is
\* asked again
SearchRetries ==
    /\ pc = "search_agent"
    /\ \E r \in SearchResults :
         validate_result(deps, r).exc = "ModelRetry"
    /\ retry < retries
    /\ usage' = usage + 1
    /\ retry' = retry + 1
    /\ messages' = messages \o <<Message("search", "result"),
                                 Message("search", "retry-prompt")>>
    /\ UNCHANGED <<seat_raw, seat_pending, seat_rejected, answer, pc, deps, counter, message_history, result_data, flight,
                   seat_history, seat_messages, seat_failed, seat, purchased,
                   tool_calls, exc, ended, vresult, voutcome>>

\* ... the same with no retry left: the run fails
SearchRetriesExhausted ==
    /\ pc = "search_agent"
    /\ \E r \in SearchResults :
         validate_result(deps, r).exc = "ModelRetry"
    /\ retry >= retries
    /\ usage' = usage + 1
    /\ retry' = retry + 1
    /\ messages' = Append(messages, Message("search", "result"))
    /\ pc' = "raised"
    /\ exc' = "UnexpectedModelBehavior"
    /\ UNCHANGED <<seat_raw, seat_pending, seat_rejected, answer, deps, counter, message_history, result_data, flight,
                   seat_history, seat_messages, seat_failed, seat, purchased,
                   tool_calls, ended, vresult, voutcome>>

\* ... by a final result for which validate_result raises something that is
\* not ModelRetry: the exception leaves the run and main
SearchValidatorRaises ==
    /\ pc = "search_agent"
    /\ \E r \in SearchResults :
         LET outcome == validate_result(deps, r) IN
         /\ outcome.kind = "raise"
         /\ outcome.exc # "ModelRetry"
         /\ exc' = outcome.exc
    /\ usage' = usage + 1
    /\ messages' = Append(messages, Message("search", "result"))
    /\ pc' = "raised"
    /\ UNCHANGED <<seat_raw, seat_pending, seat_rejected, answer, deps, counter, message_history, retry, result_data,
                   flight, seat_history, seat_messages, seat_failed, seat,
                   purchased, tool_calls, ended, vresult, voutcome>>

\* MainNotFound without the break: the loop goes on to offer the result
MainNotFound_no_break ==
    /\ pc = "main_after_run"
    /\ isinstance(result_data, "NonFlightFound")
    /\ counter' = counter + 1
    /\ flight' = result_data
    /\ pc' = "ask_buy"
    /\ UNCHANGED <<seat_raw, seat_pending, seat_rejected, answer, deps, usage, message_history, messages, retry,
                   result_data, seat_history, seat_messages, seat_failed,
                   seat, purchased, tool_calls, exc, ended, vresult,
                   voutcome>>

\* main: counter += 1; isinstance(result.data, NonFlightFound): break
MainNotFound ==
    /\ pc = "main_after_run"
    /\ isinstance(result_data, "NonFlightFound")
    /\ counter' = counter + 1
    /\ pc' = "done"
    /\ ended' = "not_found"
    /\ UNCHANGED <<seat_raw, seat_pending, seat_rejected, answer, deps, usage, message_history, messages, retry,
                   result_data, flight, seat_history, seat_messages,
                   seat_failed, seat, purchased, tool_calls, exc, vresult,
                   voutcome>>

\* MainOffersFlight that keeps the flight of the first iteration
MainOffersFlight_keeps_first ==
    /\ pc = "main_after_run"
    /\ ~isinstance(result_data, "NonFlightFound")
    /\ counter' = counter + 1
    /\ flight' = IF isinstance(flight, "None") THEN result_data ELSE flight
    /\ pc' = "ask_buy"
    /\ UNCHANGED <<seat_raw, seat_pending, seat_rejected, answer, deps, usage, message_history, messages, retry,
                   result_data, seat_history, seat_messages, seat_failed,
                   seat, purchased, tool_calls, exc, ended, vresult,
                   voutcome>>

\* main: counter += 1; else: flight = result.data, the flight is offered
MainOffersFlight ==
    /\ pc = "main_after_run"
    /\ ~isinstance(result_data, "NonFlightFound")
    /\ counter' = counter + 1
    /\ flight' = result_data
    /\ pc' = "ask_buy"
    /\ UNCHANGED <<seat_raw, seat_pending, seat_rejected, answer, deps, usage, message_history, messages, retry,
                   result_data, seat_history, seat_messages, seat_failed,
                   seat, purchased, tool_calls, exc, ended, vresult,
                   voutcome>>

\* UserBuys that hands the history of the search loop to find_seat
UserBuys_shares_history ==
    /\ pc = "ask_buy"
    /\ answer' = "buy"
    /\ seat_history' = message_history
    /\ pc' = "find_seat"
    /\ UNCHANGED <<seat_raw, seat_pending, seat_rejected, deps, usage,
                   counter, message_history, messages, retry, result_data,
                   flight, seat_messages, seat_failed, seat, purchased,
                   tool_calls, exc, ended, vresult, voutcome>>

\* main: answer == "buy": find_seat(usage) starts, message_history = None
UserBuys ==
    /\ pc = "ask_buy"
    /\ answer' = "buy"
    /\ seat_history' = None
    /\ pc' = "find_seat"
    /\ UNCHANGED <<seat_raw, seat_pending, seat_rejected, deps, usage, counter, message_history, messages, retry,
                   result_data, flight, seat_messages, seat_failed, seat,
                   purchased, tool_calls, exc, ended, vresult, voutcome>>

\* UserSearchesOn with result.all_messages() and no instruction
UserSearchesOn_no_instruction ==
    /\ pc = "ask_buy"
    /\ counter <= MaxSearchAgain
    /\ answer' \in {"search", ""}
    /\ message_history' = MessageList(messages)
    /\ pc' = "main_loop"
    /\ UNCHANGED <<seat_raw, seat_pending, seat_rejected, deps, usage,
                   counter, messages, retry, result_data, flight,
                   seat_history, seat_messages, seat_failed, seat, purchased,
                   tool_calls, exc, ended, vresult, voutcome>>

\* main: any other answer: message_history = result.all_messages(
\*     result_tool_return_content='Please suggest another flight')
UserSearchesOn ==
    /\ pc = "ask_buy"
    /\ counter <= MaxSearchAgain
    /\ answer' \in {"search", ""}
    /\ message_history' = all_messages(messages,
                                       "Please suggest another flight")
    /\ pc' = "main_loop"
    /\ UNCHANGED <<seat_raw, seat_pending, seat_rejected, deps, usage, counter, messages, retry, result_data,
                   flight, seat_history, seat_messages, seat_failed, seat,
                   purchased, tool_calls, exc, ended, vresult, voutcome>>

\* find_seat: seat_preference_agent.run(..., usage=usage,
\* usage_limits=usage_limits) with the request limit reached
SeatLimitExceeded ==
    /\ pc = "find_seat"
    /\ usage >= request_limit
    /\ pc' = "raised"
    /\ exc' = "UsageLimitExceeded"
    /\ UNCHANGED <<seat_raw, seat_pending, seat_rejected, answer, deps, usage, counter, message_history, messages, retry,
                   result_data, flight, seat_history, seat_messages,
                   seat_failed, seat, purchased, tool_calls, ended, vresult,
                   voutcome>>

\* find_seat: the run is given bytes where it takes a list of messages; that
\* is outside what Agent.run declares, so the run may fail on its history
SeatHistoryRejected ==
    /\ pc = "find_seat"
    /\ isinstance(seat_history, "bytes")
    /\ seat_pending = <<>>
    /\ pc' = "raised"
    /\ exc' = "MalformedHistory"
    /\ UNCHANGED <<seat_raw, seat_pending, seat_rejected, answer, deps, usage, counter, message_history, messages, retry,
                   result_data, flight, seat_history, seat_messages,
                   seat_failed, seat, purchased, tool_calls, ended, vresult,
                   voutcome>>

\* the messages of one seat run
SeatRunMessages(part) ==
    HistoryItems(seat_history)
      \o <<Message("seat", "user-prompt")>> \o seat_pending
      \o <<Message("seat", part), Message("seat", "final-result")>>

\* find_seat: the model gives fields that are no SeatPreference: the result
\* is not constructed, and the run asks the model again
SeatOutputRejected ==
    /\ pc = "find_seat"
    /\ usage < request_limit
    /\ seat_rejected < MaxSeatRejected
    /\ \E raw \in SeatOutputs : ~SeatPreference_init(raw.row, raw.seat).ok
    /\ usage' = usage + 1
    /\ seat_rejected' = seat_rejected + 1
    /\ seat_pending' = seat_pending \o <<Message("seat", "invalid-result"),
                                          Message("seat", "retry-prompt")>>
    /\ UNCHANGED <<pc, answer, deps, counter, message_history, messages,
                   retry, result_data, flight, seat_history, seat_messages,
                   seat_failed, seat, seat_raw, purchased, tool_calls, exc,
                   ended, vresult, voutcome>>

\* ... or the run gives up on the model
SeatOutputFails ==
    /\ pc = "find_seat"
    /\ usage < request_limit
    /\ seat_rejected < MaxSeatRejected
    /\ \E raw \in SeatOutputs : ~SeatPreference_init(raw.row, raw.seat).ok
    /\ usage' = usage + 1
    /\ seat_rejected' = seat_rejected + 1
    /\ seat_pending' = Append(seat_pending,
                              Message("seat", "invalid-result"))
    /\ pc' = "raised"
    /\ exc' = "UnexpectedModelBehavior"
    /\ UNCHANGED <<answer, deps, counter, message_history, messages, retry,
                   result_data, flight, seat_history, seat_messages,
                   seat_failed, seat, seat_raw, purchased, tool_calls, ended,
                   vresult, voutcome>>

\* SeatReturns of a run that is not given usage_limits
SeatReturns_no_limit ==
    /\ pc = "find_seat"
    /\ \E raw \in SeatOutputs :
         LET made == SeatPreference_init(raw.row, raw.seat) IN
         /\ made.ok
         /\ seat' = made.value
         /\ seat_raw' = raw
    /\ usage' = usage + 1
    /\ seat_messages' = SeatRunMessages("SeatPreference")
    /\ seat_pending' = <<>>
    /\ pc' = "buy_ticket"
    /\ UNCHANGED <<seat_rejected, answer, deps, counter, message_history,
                   messages, retry, result_data, flight, seat_history,
                   seat_failed, purchased, tool_calls, exc, ended, vresult,
                   voutcome>>

\* find_seat: the model returns a SeatPreference: return result.data
SeatReturns ==
    /\ pc = "find_seat"
    /\ usage < request_limit
    /\ \E raw \in SeatOutputs :
         LET made == SeatPreference_init(raw.row, raw.seat) IN
         /\ made.ok
         /\ seat' = made.value
         /\ seat_raw' = raw
    /\ usage' = usage + 1
    /\ seat_messages' = SeatRunMessages("SeatPreference")
    /\ seat_pending' = <<>>
    /\ pc' = "buy_ticket"
    /\ UNCHANGED <<seat_rejected, answer, deps, counter, message_history, messages, retry,
                   result_data, flight, seat_history, seat_failed, purchased,
                   tool_calls, exc, ended, vresult, voutcome>>

\* find_seat: the model returns Failed:
\* message_history = result.all_messages_json(), and the loop goes on
SeatFailed ==
    /\ pc = "find_seat"
    /\ usage < request_limit
    /\ usage' = usage + 1
    /\ seat_failed' = seat_failed + 1
    /\ seat_messages' = SeatRunMessages("Failed")
    /\ seat_history' = all_messages_json(seat_messages')
    /\ seat_pending' = <<>>
    /\ UNCHANGED <<seat_raw, seat_rejected, answer, pc, deps, counter, message_history, messages, retry,
                   result_data, flight, seat, purchased, tool_calls, exc,
                   ended, vresult, voutcome>>

\* main: await buy_ticket(flight, seat); break
buy_ticket ==
    /\ pc = "buy_ticket"
    /\ purchased' = Append(purchased, [flight |-> flight, seat |-> seat])
    /\ pc' = "done"
    /\ ended' = "bought"
    /\ UNCHANGED <<seat_raw, seat_pending, seat_rejected, answer, deps, usage, counter, message_history, messages, retry,
                   result_data, flight, seat_history, seat_messages,
                   seat_failed, seat, tool_calls, exc, vresult, voutcome>>

Next ==
    \/ SearchRun
    \/ SearchCallsTool
    \/ extract_flights
    \/ SearchReturns
    \/ SearchRetries
    \/ SearchRetriesExhausted
    \/ SearchValidatorRaises
    \/ MainNotFound
    \/ MainOffersFlight
    \/ UserBuys
    \/ UserSearchesOn
    \/ SeatLimitExceeded
    \/ SeatHistoryRejected
    \/ SeatOutputRejected
    \/ SeatOutputFails
    \/ SeatReturns
    \/ SeatFailed
    \/ buy_ticket

Spec == Init /\ [][Next]_vars

----------------------------------------------------------------------------
(* Properties *)

\* the three predicates of validate_result
OriginMatches(d, r) == r.origin = d.req_origin
DestinationMatches(d, r) == r.destination = d.req_destination
DateMatches(d, r) == r.date = d.req_date
Matches(d, r) ==
    OriginMatches(d, r) /\ DestinationMatches(d, r) /\ DateMatches(d, r)

Validated == pc = "validated" /\ isinstance(vresult, "FlightDetails")

\* C1: validate_result accepts a FlightDetails record exactly when its
\* origin, destination and date equal the requested ones, and an accepted
\* record is returned unchanged in every field.
C1_AcceptsIffAllMatch ==
    Validated =>
      /\ (voutcome.kind = "return") <=> Matches(deps, vresult)
      /\ voutcome.kind = "return" => voutcome.value = vresult

C1_Witness ==
    /\ Validated
    /\ Matches(deps, vresult)
    /\ voutcome.kind = "return"
    /\ voutcome.value = vresult

\* one message per failing predicate, in the order origin, destination, date,
\* each with the expected and the actual value, joined by newlines
ExpectedMessage(d, r) ==
    join( (IF OriginMatches(d, r) THEN <<>>
           ELSE <<OriginMessage(d.req_origin, r.origin)>>)
       \o (IF DestinationMatches(d, r) THEN <<>>
           ELSE <<DestinationMessage(d.req_destination, r.destination)>>)
       \o (IF DateMatches(d, r) THEN <<>>
           ELSE <<DateMessage(d.req_date, r.date)>>) )

\* C2: whenever at least one of the three predicates fails, validate_result
\* raises ModelRetry and nothing else, with one message per failing
\* predicate, newline-joined, naming the expected and the actual value.
C2_MismatchRaisesModelRetry ==
    (Validated /\ ~Matches(deps, vresult)) =>
      /\ voutcome.kind = "raise"
      /\ voutcome.exc = "ModelRetry"
      /\ voutcome.message = ExpectedMessage(deps, vresult)

\* C3: the number of model requests made by the search agent, the extraction
\* agent and the seat agent together never exceeds the request limit.
C3_RequestsWithinLimit == usage <= request_limit

\* the messages the current (or last) search run added to its history
RunMessages ==
    SubSeq(messages, Len(HistoryItems(message_history)) + 1, Len(messages))

\* how many times the current (or last) search run asked the model again
\* after a rejected result
RetriesPerformed ==
    Cardinality({ i \in 1..Len(RunMessages) :
                    RunMessages[i].part = "retry-prompt" })

\* a search run that has ended as a failure: every result of that run was a
\* mismatching record
SearchRunFailed ==
    /\ pc = "raised"
    /\ answer # "buy"
    /\ exc \in {"UnexpectedModelBehavior", "AttributeError"}

\* C4: a search run in which every result is a mismatching record ends as a
\* failure after exactly `retries` retries.
C4_FailsAfterExactlyFourRetries ==
    SearchRunFailed => RetriesPerformed = retries

Terminated == pc \in {"done", "raised"}

\* C5: a terminated run ended by a purchase with a seat, by NonFlightFound,
\* by the retries of a search run being exhausted, or by the request limit.
C5_FourTerminationPaths ==
    Terminated =>
      \/ pc = "done" /\ ended = "bought" /\ isinstance(seat, "SeatPreference")
      \/ pc = "done" /\ ended = "not_found"
      \/ pc = "raised" /\ exc = "UnexpectedModelBehavior" /\ answer # "buy"
      \/ pc = "raised" /\ exc = "UsageLimitExceeded"

\* C6: validate_result returns the NonFlightFound marker as it is, for any
\* criteria, with none of the three comparisons made and no retry raised.
C6_NotFoundPassesThrough ==
    (pc = "validated" /\ isinstance(vresult, "NonFlightFound")) =>
      /\ voutcome.kind = "return"
      /\ voutcome.value = NonFlightFound
      /\ voutcome.exc = ""
      /\ voutcome.checks = 0

C6_Witness ==
    /\ pc = "validated"
    /\ isinstance(vresult, "NonFlightFound")
    /\ deps # main_deps
    /\ voutcome.kind = "return"

\* C7: once a search run has returned NonFlightFound, the only step left is
\* the one that ends the run: no further request, no prompt, no seat loop and
\* no purchase, also after earlier iterations of the loop.
C7_NotFoundIsTerminal ==
    [][ ( \/ pc = "main_after_run" /\ isinstance(result_data, "NonFlightFound")
          \/ ended = "not_found" )
        => /\ pc' = "done"
           /\ ended' = "not_found"
           /\ usage' = usage
           /\ answer' = answer
           /\ isinstance(seat', "None")
           /\ purchased' = <<>> ]_vars

C7_Witness ==
    /\ pc = "done"
    /\ ended = "not_found"
    /\ counter > 1
    /\ usage > 1

\* C8: buy_ticket is called at most once, after a search run returned a
\* FlightDetails record, the user answered 'buy' to it and find_seat returned
\* a SeatPreference; it is called with that record (the last one offered)
\* and that seat, and the run ends with it.
C8_PurchaseOnceLastOffer ==
    /\ Len(purchased) <= 1
    /\ purchased # <<>> =>
         /\ pc = "done"
         /\ ended = "bought"
         /\ answer = "buy"
         /\ isinstance(result_data, "FlightDetails")
         /\ purchased[1].flight = result_data
         /\ isinstance(seat, "SeatPreference")
         /\ purchased[1].seat = seat
    /\ ended = "bought" => Len(purchased) = 1

C8_Witness ==
    /\ Len(purchased) = 1
    /\ counter > 1
    /\ purchased[1].flight = result_data
    /\ purchased[1].seat = seat

\* the exchange of a seat run that ended with Failed
FailedExchange ==
    <<Message("seat", "user-prompt"), Message("seat", "Failed"),
      Message("seat", "final-result")>>

\* C9: after every Failed result find_seat goes on: the history it passes to
\* the next seat run is a message list that holds the failed exchanges so
\* far, and the loop does not end on its own.
C9_SeatLoopGoesOnWithHistory ==
    /\ (pc = "find_seat" /\ seat_failed > 0) =>
         /\ isinstance(seat_history, "list")
         /\ Len(seat_history.items) = seat_failed * Len(FailedExchange)
         /\ SubSeq(seat_history.items,
                   Len(seat_history.items) - Len(FailedExchange) + 1,
                   Len(seat_history.items)) = FailedExchange
    /\ (pc = "raised" /\ answer = "buy" /\ seat_rejected = 0) =>
         exc = "UsageLimitExceeded"

\* C10: the seat loop, with a model that returns Failed every time, ends by
\* the request limit and by nothing else.
C10_SeatLoopEndsByLimitOnly ==
    (pc = "raised" /\ answer = "buy" /\ isinstance(seat, "None")
       /\ seat_rejected = 0) =>
      exc = "UsageLimitExceeded"

\* a seat within the field constraints of SeatPreference
WithinConstraints(s) ==
    /\ isinstance(s, "SeatPreference")
    /\ 1 <= s.row /\ s.row <= 30
    /\ s.seat \in {"A", "B", "C", "D", "E", "F"}

\* C11: the seat returned by find_seat and the seat given to buy_ticket have
\* 1 <= row <= 30 and a seat letter of A..F, and are the fields the model
\* gave, not clamped ones: fields outside the constraints make no seat.
C11_SeatsWithinConstraints ==
    /\ ~isinstance(seat, "None") =>
         /\ WithinConstraints(seat)
         /\ seat.row = seat_raw.row
         /\ seat.seat = seat_raw.seat
    /\ \A i \in 1..Len(purchased) :
         /\ WithinConstraints(purchased[i].seat)
         /\ purchased[i].seat.row = seat_raw.row
         /\ purchased[i].seat.seat = seat_raw.seat

C11_Witness ==
    /\ Len(purchased) = 1
    /\ seat_rejected > 0
    /\ WithinConstraints(purchased[1].seat)

IsPrefix(a, b) == Len(a) <= Len(b) /\ SubSeq(b, 1, Len(a)) = a

AllOf(agent, msgs) == \A i \in 1..Len(msgs) : msgs[i].agent = agent

\* no message of one loop is in the history or the run of the other, and the
\* first search run is given an empty history
HistoriesApart ==
    /\ counter = 0 => HistoryItems(message_history) = <<>>
    /\ AllOf("search", HistoryItems(message_history))
    /\ AllOf("search", messages)
    /\ AllOf("seat", HistoryItems(seat_history))
    /\ AllOf("seat", seat_pending)
    /\ AllOf("seat", seat_messages)

\* find_seat starts from an empty history, and a history that is replaced
\* within a loop is replaced by one that extends it
HistoriesGrow ==
    /\ (pc = "ask_buy" /\ pc' = "find_seat") =>
         HistoryItems(seat_history') = <<>>
    /\ message_history' # message_history =>
         /\ IsPrefix(HistoryItems(message_history),
                     HistoryItems(message_history'))
         /\ Len(HistoryItems(message_history'))
              > Len(HistoryItems(message_history))
    /\ (pc = "find_seat" /\ seat_history' # seat_history) =>
         /\ IsPrefix(HistoryItems(seat_history), HistoryItems(seat_history'))
         /\ Len(HistoryItems(seat_history')) > Len(HistoryItems(seat_history))

\* C12: the search loop and the seat loop each start from an empty history,
\* neither is ever given a message of the other, and within a loop the
\* history given to a run has the history given to the run before it as a
\* prefix.
C12_HistoryPerLoopAppendOnly == []HistoriesApart /\ [][HistoriesGrow]_vars

C12_Witness ==
    /\ pc = "find_seat"
    /\ counter > 1
    /\ HistoryItems(message_history) # <<>>
    /\ seat_failed > 0
    /\ HistoryItems(seat_history) # <<>>

\* how many messages of msgs are replies of a model
Replies(msgs) ==
    Cardinality({ i \in 1..Len(msgs) :
                    msgs[i].part \in {"tool-call", "result", "invalid-result",
                                      "Failed", "SeatPreference"} })

\* requests made by the search agent: the replies in its conversation
SearchRequests == Replies(messages)
\* requests made by the extraction agent: one for each call of the tool
ExtractionRequests == tool_calls
\* requests made by the seat agent: the replies in its conversation
SeatRequests ==
    IF isinstance(seat, "SeatPreference") THEN Replies(seat_messages)
    ELSE Replies(HistoryItems(seat_history) \o seat_pending)

\* C13: usage.requests is the number of requests made so far by the search
\* agent, the extraction agent and the seat agent together; it never
\* decreases, and find_seat goes on from the count the search loop left.
C13_OneSharedCounter ==
    /\ [](usage = SearchRequests + ExtractionRequests + SeatRequests)
    /\ [][ /\ usage' >= usage
           /\ (pc = "ask_buy" /\ pc' = "find_seat") => usage' = usage ]_vars

C13_Witness ==
    /\ SearchRequests > 0
    /\ ExtractionRequests > 0
    /\ SeatRequests > 1
    /\ usage = SearchRequests + ExtractionRequests + SeatRequests

\* the history h is the conversation msgs of a finished search run, ending
\* with the instruction to suggest another flight
EndsWithInstruction(h, msgs) ==
    /\ Len(h) = Len(msgs)
    /\ Len(h) > 0
    /\ SubSeq(h, 1, Len(h) - 1) = SubSeq(msgs, 1, Len(msgs) - 1)
    /\ h[Len(h)] = Message("search", "Please suggest another flight")

\* C14: after a flight is offered, the answer 'buy' starts find_seat; the
\* answers 'search' and '' start another search run, with a fresh retry
\* count, whose history is the whole conversation of the run just finished
\* ending with the instruction 'Please suggest another flight'.
C14_AnswerDecidesNextStep ==
    [][ /\ pc = "ask_buy" =>
            \/ /\ answer' = "buy"
               /\ pc' = "find_seat"
               /\ message_history' = message_history
            \/ /\ answer' \in {"search", ""}
               /\ pc' = "main_loop"
               /\ isinstance(message_history', "list")
               /\ EndsWithInstruction(message_history'.items, messages)
        /\ pc = "main_loop" =>
            /\ pc' = "search_agent"
            /\ retry' = 0
            /\ messages' = HistoryItems(message_history)
                             \o <<Message("search", "user-prompt")>> ]_vars

C14_Witness ==
    /\ pc = "search_agent"
    /\ counter > 1
    /\ answer = ""
    /\ retry = 0
    /\ RetriesPerformed = 0
    /\ Cardinality({ i \in 1..Len(messages) :
                       messages[i].part = "retry-prompt" }) >= retries
    /\ Cardinality({ i \in 1..Len(messages) :
                       messages[i].part = "Please suggest another flight" })
         = counter

\* C15: every flight offered to the user and every flight given to
\* buy_ticket has the requested origin, destination and date, whatever the
\* model returned over the retries and the 'search' iterations.
C15_OnlyMatchingFlights ==
    /\ ~isinstance(flight, "None") =>
         /\ isinstance(flight, "FlightDetails")
         /\ flight.origin = deps.req_origin
         /\ flight.destination = deps.req_destination
         /\ flight.date = deps.req_date
    /\ \A i \in 1..Len(purchased) :
         /\ purchased[i].flight.origin = deps.req_origin
         /\ purchased[i].flight.destination = deps.req_destination
         /\ purchased[i].flight.date = deps.req_date

C15_Witness ==
    /\ Len(purchased) = 1
    /\ counter > 1
    /\ RetriesPerformed > 0
    /\ Matches(deps, purchased[1].flight)

\* find_seat is about to make its first request to the seat model
FirstSeatRun ==
    /\ pc = "find_seat"
    /\ seat_failed = 0
    /\ seat_pending = <<>>
    /\ isinstance(seat_history, "None")

\* C16: when the requests of the search loop and of extract_flights have
\* reached the request limit, the first seat run raises UsageLimitExceeded
\* with no request to the seat model, and the accepted flight is never
\* purchased.
C16_SeatCheckCountsSearchRequests ==
    /\ [][ (FirstSeatRun /\ usage >= request_limit) =>
             /\ pc' = "raised"
             /\ exc' = "UsageLimitExceeded"
             /\ usage' = usage
             /\ seat_messages' = <<>>
             /\ isinstance(seat', "None")
             /\ purchased' = <<>> ]_vars
    /\ [](exc = "UsageLimitExceeded" =>
             /\ pc = "raised"
             /\ usage >= request_limit
             /\ isinstance(flight, "FlightDetails")
             /\ purchased = <<>>)

C16_Witness ==
    /\ pc = "raised"
    /\ exc = "UsageLimitExceeded"
    /\ SeatRequests = 0
    /\ ExtractionRequests > 0
    /\ usage = SearchRequests + ExtractionRequests
    /\ answer = "buy"

\* C17: once usage.requests has reached the request limit no further
\* request is made to any model: the limit ends the run at the latest.
C17_LimitEndsEveryRun ==
    [][ usage >= request_limit => usage' = usage ]_vars

\* two records with the same origin, destination and date
SameIdentity(r1, r2) ==
    /\ r1.origin = r2.origin
    /\ r1.destination = r2.destination
    /\ r1.date = r2.date

\* C18: two FlightDetails records that agree on origin, destination and date
\* get the same outcome from validate_result, whatever their flight numbers
\* and prices: both returned as they are, or both rejected with the same
\* messages.
C18_OutcomeIgnoresNumberAndPrice ==
    Validated =>
      \A other \in AnyFlight :
        SameIdentity(vresult, other) =>
          LET outcome == validate_result(deps, other) IN
          /\ outcome.kind = voutcome.kind
          /\ outcome.exc = voutcome.exc
          /\ outcome.message = voutcome.message
          /\ outcome.kind = "return" =>
               (outcome.value = other /\ voutcome.value = vresult)

C18_Witness ==
    /\ Validated
    /\ voutcome.kind = "return"
    /\ voutcome.value = vresult
    /\ \E other \in AnyFlight :
         /\ SameIdentity(vresult, other)
         /\ other.price < vresult.price
         /\ other.flight_number # vresult.flight_number

====
